---- MODULE Spec2Model ----
(***************************************************************************)
(* kanban-fs: a VS Code custom editor that shows the sibling directories   *)
(* of a .kanban file as columns and the Markdown files inside them as      *)
(* cards.  Model of src/src/extension.ts: the card parser, the board       *)
(* builder, the move executor and the editor's event handlers.             *)
(*                                                                         *)
(* Text is modelled as a sequence of one-character strings, so that the    *)
(* string functions of the source (trim, startsWith, endsWith, split,      *)
(* toLowerCase, the regular expressions, localeCompare) are computed.      *)
(***************************************************************************)
EXTENDS Integers, Sequences, FiniteSets, TLC

(***************************************************************************)
(* Strings                                                                 *)
(***************************************************************************)
NL == "\n"
CR == "\r"

\* String.prototype.toLowerCase, one character.
LowerChar(c) ==
  CASE c = "A" -> "a" [] c = "B" -> "b" [] c = "D" -> "d" [] c = "G" -> "g"
    [] c = "M" -> "m" [] c = "S" -> "s" [] c = "T" -> "t" [] c = "Z" -> "z"
    [] OTHER -> c

ToLowerCase(s) == [i \in 1..Len(s) |-> LowerChar(s[i])]

\* White space as String.prototype.trim and the regular expression \s see it.
IsSpace(c) == c \in {" ", "\t", NL, CR}

\* A line terminator: the regular expression . does not match it.
IsLineTerminator(c) == c \in {NL, CR}

StartsWith(s, p) == Len(s) >= Len(p) /\ SubSeq(s, 1, Len(p)) = p

EndsWith(s, p) == Len(s) >= Len(p) /\ SubSeq(s, Len(s) - Len(p) + 1, Len(s)) = p

RECURSIVE TrimStart(_)
TrimStart(s) == IF s # <<>> /\ IsSpace(Head(s)) THEN TrimStart(Tail(s)) ELSE s

RECURSIVE TrimEnd(_)
TrimEnd(s) ==
  IF s # <<>> /\ IsSpace(s[Len(s)]) THEN TrimEnd(SubSeq(s, 1, Len(s) - 1)) ELSE s

Trim(s) == TrimEnd(TrimStart(s))

\* s.split(sep) for a one-character separator: always at least one piece.
RECURSIVE SplitOn(_, _)
SplitOn(s, sep) ==
  IF \E i \in 1..Len(s) : s[i] = sep
    THEN LET i == CHOOSE k \in 1..Len(s) :
                    s[k] = sep /\ \A j \in 1..(k - 1) : s[j] # sep
         IN  <<SubSeq(s, 1, i - 1)>> \o SplitOn(SubSeq(s, i + 1, Len(s)), sep)
    ELSE <<s>>

\* content.split(/\r?\n/): a carriage return right before the line feed
\* belongs to the separator.
RECURSIVE SplitLines(_)
SplitLines(s) ==
  IF \E i \in 1..Len(s) : s[i] = NL
    THEN LET i == CHOOSE k \in 1..Len(s) :
                    s[k] = NL /\ \A j \in 1..(k - 1) : s[j] # NL
             e == IF i > 1 /\ s[i - 1] = CR THEN i - 2 ELSE i - 1
         IN  <<SubSeq(s, 1, e)>> \o SplitLines(SubSeq(s, i + 1, Len(s)))
    ELSE <<s>>

\* pieces.join(sep)
RECURSIVE Join(_, _)
Join(pieces, sep) ==
  IF pieces = <<>> THEN <<>>
  ELSE IF Len(pieces) = 1 THEN pieces[1]
  ELSE pieces[1] \o <<sep>> \o Join(Tail(pieces), sep)

RECURSIVE Flatten(_)
Flatten(ss) == IF ss = <<>> THEN <<>> ELSE Head(ss) \o Flatten(Tail(ss))

SelectNonEmpty(ss) == SelectSeq(ss, LAMBDA t : Len(t) > 0)

(***************************************************************************)
(* String.prototype.localeCompare for the characters of the model: the     *)
(* collation compares the primary weights first (white space, then         *)
(* punctuation, then digits, then letters, letter case ignored) and        *)
(* breaks a tie by case, lower case first.                                 *)
(***************************************************************************)
PrimaryWeight(c) ==
  LET l == LowerChar(c)
  IN  CASE l = "\t" -> 1 [] l = NL -> 2 [] l = CR -> 3 [] l = " " -> 4
        [] l = "," -> 5 [] l = ":" -> 6 [] l = "." -> 7 [] l = "#" -> 8
        [] l = "a" -> 10 [] l = "b" -> 11 [] l = "d" -> 12 [] l = "e" -> 13
        [] l = "g" -> 14 [] l = "m" -> 15 [] l = "n" -> 16 [] l = "o" -> 17
        [] l = "s" -> 18 [] l = "t" -> 19 [] l = "u" -> 20 [] l = "x" -> 21
        [] l = "y" -> 22 [] l = "z" -> 23
        [] OTHER -> 9

IsUpper(c) == LowerChar(c) # c

RECURSIVE ComparePrimary(_, _)
ComparePrimary(a, b) ==
  IF a = <<>> /\ b = <<>> THEN 0
  ELSE IF a = <<>> THEN -1
  ELSE IF b = <<>> THEN 1
  ELSE IF PrimaryWeight(Head(a)) < PrimaryWeight(Head(b)) THEN -1
  ELSE IF PrimaryWeight(Head(a)) > PrimaryWeight(Head(b)) THEN 1
  ELSE ComparePrimary(Tail(a), Tail(b))

RECURSIVE CompareCase(_, _)
CompareCase(a, b) ==
  IF a = <<>> \/ b = <<>> THEN 0
  ELSE IF ~IsUpper(Head(a)) /\ IsUpper(Head(b)) THEN -1
  ELSE IF IsUpper(Head(a)) /\ ~IsUpper(Head(b)) THEN 1
  ELSE CompareCase(Tail(a), Tail(b))

LocaleCompare(a, b) ==
  IF ComparePrimary(a, b) # 0 THEN ComparePrimary(a, b) ELSE CompareCase(a, b)

(***************************************************************************)
(* Card parser                                                             *)
(***************************************************************************)
\* A mutant: the extension is removed only as written in lower case.
StripLowerCaseMdExtension(name) ==
  IF EndsWith(name, <<".", "m", "d">>) THEN SubSeq(name, 1, Len(name) - 3) ELSE name

\* fallbackTitle.replace(/\.md$/i, "")
StripMdExtension(name) ==
  IF EndsWith(ToLowerCase(name), <<".", "m", "d">>)
    THEN SubSeq(name, 1, Len(name) - 3)
    ELSE name

\* line.replace(/^#\s+/, "").trim()
HeadingText(line) ==
  IF line # <<>> /\ Head(line) = "#" /\ Len(line) >= 2 /\ IsSpace(line[2])
    THEN Trim(TrimStart(Tail(line)))
    ELSE Trim(line)

\* line.match(/^tags\s*:\s*(.+)$/i): <<match[1]>>, or <<>> when the line does
\* not match.  The greedy \s* gives back one character when nothing else is
\* left for the group, and . matches no line terminator.
TagMatch(line) ==
  IF ~StartsWith(ToLowerCase(line), <<"t", "a", "g", "s">>) THEN <<>>
  ELSE LET afterKey == TrimStart(SubSeq(line, 5, Len(line)))
       IN  IF afterKey = <<>> \/ Head(afterKey) # ":" THEN <<>>
           ELSE LET rest  == Tail(afterKey)
                    group == IF TrimStart(rest) # <<>> THEN TrimStart(rest)
                             ELSE IF rest # <<>> THEN <<rest[Len(rest)]>>
                             ELSE <<>>
                IN  IF group = <<>> \/ \E i \in 1..Len(group) : IsLineTerminator(group[i])
                      THEN <<>>
                      ELSE <<group>>

\* A mutant: the empty pieces are kept.
ParseTagsKeepingEmpty(group) ==
  LET pieces == SplitOn(group, ",")
  IN  [i \in 1..Len(pieces) |-> Trim(pieces[i])]

\* match[1].split(",").map((tag) => tag.trim()).filter((tag) => tag.length > 0)
ParseTags(group) ==
  LET pieces == SplitOn(group, ",")
  IN  SelectNonEmpty([i \in 1..Len(pieces) |-> Trim(pieces[i])])

\* The tags of the lines lo..hi, in order.
LineTags(lines, lo, hi) ==
  Flatten([k \in 1..(IF hi >= lo THEN hi - lo + 1 ELSE 0) |->
             LET m == TagMatch(lines[lo + k - 1])
             IN  IF m = <<>> THEN <<>> ELSE ParseTags(m[1])])

parseMarkdown(content, fallbackTitle) ==
  LET lines == SplitLines(content)
      IsHeading(i) == StartsWith(Trim(lines[i]), <<"#", " ">>)
      found == \E i \in 1..Len(lines) : IsHeading(i)
      h == IF found
             THEN CHOOSE i \in 1..Len(lines) :
                    IsHeading(i) /\ \A j \in 1..(i - 1) : ~IsHeading(j)
             ELSE 0
      fallback == StripMdExtension(fallbackTitle)
      title == IF found /\ HeadingText(Trim(lines[h])) # <<>>
                 THEN HeadingText(Trim(lines[h]))
                 ELSE fallback
      \* bodyStart counts lines: the lines 1..bodyStart precede the body.
      bodyStart == h
      rest == SubSeq(lines, bodyStart + 1, Len(lines))
      bodyLines == SelectSeq(rest, LAMBDA l : TagMatch(l) = <<>>)
  IN  [title |-> title,
       body  |-> Trim(Join(bodyLines, NL)),
       tags  |-> LineTags(lines, 1, bodyStart)
                   \o LineTags(lines, bodyStart + 1, Len(lines))]

\* md.render(body || ""): the renderer is a collaborator; its result is kept
\* as a value that only records what was rendered.
Render(body) == <<"html", body>>

(***************************************************************************)
(* Uris.  A uri string is the scheme token followed by the characters of   *)
(* the path; the names of the model need no percent-encoding.              *)
(***************************************************************************)
FileScheme == "file://"

\* vscode.Uri.parse(value): a string without a scheme is read as a file path.
UriParse(str) ==
  IF str # <<>> /\ Head(str) = FileScheme
    THEN [scheme |-> "file", path |-> Tail(str)]
    ELSE [scheme |-> "file", path |-> str]

\* uri.toString()
UriToString(uri) == <<FileScheme>> \o uri.path

\* The path without its last segment.
RECURSIVE DirName(_)
DirName(path) ==
  IF path = <<>> THEN <<>>
  ELSE IF path[Len(path)] = "/" THEN SubSeq(path, 1, Len(path) - 1)
  ELSE DirName(SubSeq(path, 1, Len(path) - 1))

\* uri.path.split("/").pop()
BaseName(path) == LET parts == SplitOn(path, "/") IN parts[Len(parts)]

\* vscode.Uri.joinPath(uri, segment), for one segment or ".."
UriJoinPath(uri, segment) ==
  IF segment = <<".", ".">>
    THEN [uri EXCEPT !.path = DirName(uri.path)]
  ELSE IF segment = <<>> THEN uri
    ELSE [uri EXCEPT !.path = uri.path \o <<"/">> \o segment]

(***************************************************************************)
(* The file system: a function from the paths that exist to their nodes.   *)
(* readDirectory reports a symbolic link as SymbolicLink combined with the *)
(* type of its target, which is neither File nor Directory.                *)
(***************************************************************************)
FileType_File == "File"
FileType_Directory == "Directory"
FileType_LinkToFile == "SymbolicLink|File"
FileType_LinkToDirectory == "SymbolicLink|Directory"

FileNode(content, ctime) == [type |-> FileType_File, content |-> content, ctime |-> ctime]
DirNode == [type |-> FileType_Directory, content |-> <<>>, ctime |-> 0]
LinkNode(type) == [type |-> type, content |-> <<>>, ctime |-> 0]

Exists(f, path) == path \in DOMAIN f

IsDirectory(f, path) ==
  Exists(f, path) /\ f[path].type \in {FileType_Directory, FileType_LinkToDirectory}

IsFile(f, path) ==
  Exists(f, path) /\ f[path].type \in {FileType_File, FileType_LinkToFile}

IsUnder(path, dir) ==
  Len(path) > Len(dir) /\ SubSeq(path, 1, Len(dir) + 1) = dir \o <<"/">>

Children(f, dir) == {p \in DOMAIN f : DirName(p) = dir}

\* The entries workspace.fs.readDirectory(dir) resolves to, as a set.
DirEntries(f, dir) == {<<BaseName(p), f[p].type>> : p \in Children(f, dir)}

\* The orders a listing may come in.
Orderings(S) ==
  {q \in [1..Cardinality(S) -> S] : \A i, j \in 1..Cardinality(S) : i # j => q[i] # q[j]}

\* A mutant: a directory lists in any order every time.
ListingsInAnyOrder(f, order, dir) == Orderings(DirEntries(f, dir))

\* The orders the listing of a directory may come in.  A directory that is
\* not touched lists the same way every time; `order` has the order of the
\* directories whose order is known, and any order is possible for the rest.
Listings(f, order, dir) ==
  IF dir \in DOMAIN order THEN {order[dir]} ELSE Orderings(DirEntries(f, dir))

\* What is still known of the orders once the file system went from f to g.
Forget(order, f, g) ==
  [d \in {x \in DOMAIN order : Exists(g, x) /\ DirEntries(f, x) = DirEntries(g, x)} |->
     order[d]]

NoOrder == << >>

Restrict(f, D) == [p \in D |-> f[p]]

RemoveTree(f, path) ==
  Restrict(f, {p \in DOMAIN f : p # path /\ ~IsUnder(p, path)})

\* The tree at `from`, rooted at `to` instead.
Rebase(p, from, to) == to \o SubSeq(p, Len(from) + 1, Len(p))

MoveTree(f, from, to) ==
  LET moved == {p \in DOMAIN f : p = from \/ IsUnder(p, from)}
      kept  == DOMAIN f \ moved
  IN  [p \in kept \cup {Rebase(q, from, to) : q \in moved} |->
         IF p \in kept THEN f[p]
         ELSE f[CHOOSE q \in moved : Rebase(q, from, to) = p]]

(***************************************************************************)
(* Array.prototype.sort with a comparator is stable: elements that compare *)
(* equal keep their order.  SortedIndices(keys) is the order in which a    *)
(* stable sort by localeCompare leaves the elements with these keys.       *)
(***************************************************************************)
RECURSIVE InsertIndex(_, _, _)
InsertIndex(sorted, i, keys) ==
  IF sorted = <<>> THEN <<i>>
  ELSE IF LocaleCompare(keys[Head(sorted)], keys[i]) <= 0
    THEN <<Head(sorted)>> \o InsertIndex(Tail(sorted), i, keys)
    ELSE <<i>> \o sorted

RECURSIVE SortedPrefix(_, _)
SortedPrefix(keys, n) ==
  IF n = 0 THEN <<>> ELSE InsertIndex(SortedPrefix(keys, n - 1), n, keys)

SortedIndices(keys) == SortedPrefix(keys, Len(keys))

\* A mutant of the two sorts: the listing order is kept.
UnsortedCards(cards) == cards

\* cards.sort((a, b) => a.title.localeCompare(b.title))
SortCards(cards) ==
  LET order == SortedIndices([i \in 1..Len(cards) |-> cards[i].title])
  IN  [i \in 1..Len(cards) |-> cards[order[i]]]

UnsortedColumns(columns) == columns

\* columns.sort((a, b) => a.name.localeCompare(b.name))
SortColumns(columns) ==
  LET order == SortedIndices([i \in 1..Len(columns) |-> columns[i].name])
  IN  [i \in 1..Len(columns) |-> columns[order[i]]]

(***************************************************************************)
(* Board builder: the filters of the two loops, and the card of a file.    *)
(***************************************************************************)
\* buildBoard: if (type !== vscode.FileType.Directory) continue
IsColumnEntry(entry) == entry[2] = FileType_Directory

\* A mutant: the extension is compared as written.
IsCardEntryCaseSensitive(entry) ==
  entry[2] = FileType_File /\ EndsWith(entry[1], <<".", "m", "d">>)

\* readCards: if (type !== vscode.FileType.File ||
\*                !name.toLowerCase().endsWith(".md")) continue
IsCardEntry(entry) ==
  entry[2] = FileType_File /\ EndsWith(ToLowerCase(entry[1]), <<".", "m", "d">>)

\* What readCards has of a card once the file is read, parsed and rendered.
ParsedCard(fileUri, name, text) ==
  LET parsed == parseMarkdown(text, name)
  IN  [uri       |-> UriToString(fileUri),
       fileName  |-> name,
       title     |-> parsed.title,
       body      |-> parsed.body,
       bodyHtml  |-> Render(parsed.body),
       tags      |-> parsed.tags,
       createdAt |-> 0]

(***************************************************************************)
(* Move executor                                                           *)
(***************************************************************************)
RenameResult(ok, f) == [ok |-> ok, fs |-> f]

\* What workspace.fs.rename(from, to, {overwrite}) may do.  It fails when
\* the target exists and overwrite is false, when the source is missing and
\* when the parent of the target is a file.  When the parent of the target
\* is missing the file system provider fails, while the host's file service
\* creates the missing parent first: both outcomes are possible.
RenameOutcomes(f, from, to, overwrite) ==
  LET parent       == DirName(to)
      canMakeDir   == ~Exists(f, parent) /\ IsDirectory(f, DirName(parent))
      withParent   == [p \in DOMAIN f \cup {parent} |-> IF p = parent THEN DirNode ELSE f[p]]
      replaced(g)  == MoveTree(RemoveTree(g, to), from, to)
  IN  IF Exists(f, to) /\ ~overwrite THEN {RenameResult(FALSE, f)}
      ELSE IF ~Exists(f, from)
        THEN {RenameResult(FALSE, f)}
               \cup (IF canMakeDir THEN {RenameResult(FALSE, withParent)} ELSE {})
      ELSE IF IsUnder(to, from) THEN {RenameResult(FALSE, f)}
      ELSE IF IsDirectory(f, parent) THEN {RenameResult(TRUE, replaced(f))}
      ELSE IF canMakeDir
        THEN {RenameResult(FALSE, f), RenameResult(TRUE, replaced(withParent))}
      ELSE {RenameResult(FALSE, f)}

\* A mutant: the rename may replace what is at the destination.
OverwriteTrue == TRUE

\* moveCard: the options of its rename, { overwrite: false }
MoveOverwrite == FALSE

\* A mutant: no intent is taken as malformed.
NothingMissing(cardUriString, targetColumnName) == FALSE

\* moveCard: if (!cardUriString || !targetColumnName) return
IsMissingArgument(cardUriString, targetColumnName) ==
  cardUriString = <<>> \/ targetColumnName = <<>>

\* A mutant: the locators are not compared.
NeverSameLocator(cardUri, newUri) == FALSE

\* A mutant: two locators are taken to be the same when their file names are.
SameLeafName(cardUri, newUri) == BaseName(cardUri.path) = BaseName(newUri.path)

\* moveCard: if (cardUri.toString() === newUri.toString()) return
IsSameLocator(cardUri, newUri) == UriToString(cardUri) = UriToString(newUri)

\* A mutant: a failure of the rename is caught and dropped.
MoveResultSwallowed(result, f, renames) ==
  [result |-> IF result = "error" THEN "noop" ELSE result, fs |-> f, renames |-> renames]

\* How a call of moveCard ends: it returns ("noop", "moved") or throws
\* ("error"), with the file system it leaves and the renames it issued.
MoveResult(result, f, renames) == [result |-> result, fs |-> f, renames |-> renames]

\* The outcomes of moveCard(kanbanUri, cardUriString, targetColumnName) on
\* the file system f: "noop" (returned without a rename), "moved", or
\* "error" (the rename failed and the failure is thrown to the caller).
moveCard(f, kanbanUri, cardUriString, targetColumnName) ==
  IF IsMissingArgument(cardUriString, targetColumnName) THEN {MoveResult("noop", f, 0)}
  ELSE
    LET cardUri         == UriParse(cardUriString)
        boardFolder     == UriJoinPath(kanbanUri, <<".", ".">>)
        targetColumnUri == UriJoinPath(boardFolder, targetColumnName)
        fileName        == BaseName(cardUri.path)
        newUri          == UriJoinPath(targetColumnUri, fileName)
    IN  IF fileName = <<>> THEN {MoveResult("noop", f, 0)}
        ELSE IF IsSameLocator(cardUri, newUri) THEN {MoveResult("noop", f, 0)}
        ELSE {MoveResult(IF o.ok THEN "moved" ELSE "error", o.fs, 1) :
                o \in RenameOutcomes(f, cardUri.path, newUri.path, MoveOverwrite)}

(***************************************************************************)
(* The names, texts and file systems of the model.                         *)
(***************************************************************************)
MaxFsOps   == 1   \* changes made to the file system from outside the editor
MaxIntents == 1   \* messages the webview posts to the editor
MaxCtime   == 1   \* creation times of the files created from outside
MaxTasks   == 2   \* calls of sendBoard in flight at once
MaxLines   == 3   \* lines of a card file given to the parser
MaxDrops   == 2   \* messages the webview posts from the boards it shows

FolderF == <<"/", "F">>
KanbanF == [scheme |-> "file", path |-> FolderF \o <<"/", "k">>]
Anchors == {KanbanF}
\* A second board file in the same folder.
KanbanJ == [scheme |-> "file", path |-> FolderF \o <<"/", "j">>]
TwoAnchors == {KanbanF, KanbanJ}

Todo    == <<"T", "o", "d", "o">>
Done    == <<"D", "o", "n", "e">>
Gone    == <<"G", "o", "n", "e">>   \* a column name with no directory
a_md    == <<"a", ".", "m", "d">>
B_MD    == <<"B", ".", "M", "D">>
n_txt   == <<"n", ".", "t", "x", "t">>

TextZ   == <<"#", " ", "Z", NL, "t", "a", "g", "s", ":", " ", "x", NL, "b">>
TextB   == <<"b">>
Texts   == {TextZ, TextB}

PathOf(folder, names) == folder \o Flatten([i \in 1..Len(names) |-> <<"/">> \o names[i]])

BoardFolderOf(kanbanUri) == UriJoinPath(kanbanUri, <<".", ".">>)

\* Todo holds a card, Done is empty.
FsOneCard ==
  (PathOf(FolderF, <<>>)              :> DirNode) @@
  (PathOf(FolderF, <<<<"k">>>>)       :> FileNode(<<>>, 1)) @@
  (PathOf(FolderF, <<Todo>>)          :> DirNode) @@
  (PathOf(FolderF, <<Todo, a_md>>)    :> FileNode(TextZ, 1)) @@
  (PathOf(FolderF, <<Done>>)          :> DirNode)

\* Both columns hold a file of the same name.
FsCollision ==
  FsOneCard @@
  (PathOf(FolderF, <<Done, a_md>>)    :> FileNode(TextB, 1))

InitialFileSystems == {FsOneCard}

\* Done holds the card, Todo is empty.
FsDoneCard ==
  (PathOf(FolderF, <<>>)              :> DirNode) @@
  (PathOf(FolderF, <<<<"k">>>>)       :> FileNode(<<>>, 1)) @@
  (PathOf(FolderF, <<Todo>>)          :> DirNode) @@
  (PathOf(FolderF, <<Done>>)          :> DirNode) @@
  (PathOf(FolderF, <<Done, a_md>>)    :> FileNode(TextB, 1))

MoveFileSystems == {FsOneCard, FsCollision, FsDoneCard}

\* A board folder with everything the builder has to leave out: a file in
\* the board folder, a link to a directory, and in Todo a file that is no
\* card, a link to a file and a directory with a card file in it.  The two
\* cards of Todo have the same title.
FsMixed ==
  (PathOf(FolderF, <<>>)                 :> DirNode) @@
  (PathOf(FolderF, <<a_md>>)             :> FileNode(TextZ, 1)) @@
  (PathOf(FolderF, <<Gone>>)             :> LinkNode(FileType_LinkToDirectory)) @@
  (PathOf(FolderF, <<Todo>>)             :> DirNode) @@
  (PathOf(FolderF, <<Todo, a_md>>)       :> FileNode(TextZ, 1)) @@
  (PathOf(FolderF, <<Todo, B_MD>>)       :> FileNode(TextZ, 1)) @@
  (PathOf(FolderF, <<Todo, n_txt>>)      :> FileNode(TextZ, 1)) @@
  (PathOf(FolderF, <<Todo, Done>>)       :> DirNode) @@
  (PathOf(FolderF, <<Todo, Done, a_md>>) :> FileNode(TextB, 1)) @@
  (PathOf(FolderF, <<Done>>)             :> DirNode) @@
  (PathOf(FolderF, <<Done, B_MD>>)       :> LinkNode(FileType_LinkToFile)) @@
  (PathOf(FolderF, <<Done, a_md>>)       :> FileNode(TextB, 1))

\* Three columns; the cards of Todo get their titles from their file names.
FsThreeColumns ==
  (PathOf(FolderF, <<>>)                 :> DirNode) @@
  (PathOf(FolderF, <<Todo>>)             :> DirNode) @@
  (PathOf(FolderF, <<Todo, a_md>>)       :> FileNode(TextB, 1)) @@
  (PathOf(FolderF, <<Todo, B_MD>>)       :> FileNode(TextB, 1)) @@
  (PathOf(FolderF, <<Done>>)             :> DirNode) @@
  (PathOf(FolderF, <<Done, B_MD>>)       :> FileNode(TextZ, 1)) @@
  (PathOf(FolderF, <<Done, a_md>>)       :> FileNode(TextB, 1)) @@
  (PathOf(FolderF, <<<<"d">>>>)          :> DirNode)

\* Two cards of Todo have the same title.
FsTie ==
  (PathOf(FolderF, <<>>)              :> DirNode) @@
  (PathOf(FolderF, <<<<"k">>>>)       :> FileNode(<<>>, 1)) @@
  (PathOf(FolderF, <<Todo>>)          :> DirNode) @@
  (PathOf(FolderF, <<Todo, a_md>>)    :> FileNode(TextZ, 1)) @@
  (PathOf(FolderF, <<Todo, B_MD>>)    :> FileNode(TextZ, 1)) @@
  (PathOf(FolderF, <<Done>>)          :> DirNode)

IdemFileSystems == {FsOneCard, FsCollision, FsTie}

\* The lines of the card files given to the parser: headings, lines with
\* tags, and lines that only look like one or the other.
LinePool ==
  { <<"#", " ", "T">>,
    <<" ", "#", " ", " ", "Z", " ">>,
    <<"#">>,
    <<"t", "a", "g", "s", ":", " ", "x", ",", " ", "y">>,
    <<"T", "a", "g", "s", " ", ":", "y", ",", ",", "x", " ">>,
    <<"t", "a", "g", "s", ":">>,
    <<" ", "t", "a", "g", "s", ":", " ", "x">>,
    <<"b">>,
    <<>> }

ParseTexts ==
  {Join(ls, NL) : ls \in UNION {[1..n -> LinePool] : n \in 1..MaxLines}}

\* One column with one card file.
FsCard(name, text) ==
  (PathOf(FolderF, <<>>)              :> DirNode) @@
  (PathOf(FolderF, <<<<"k">>>>)       :> FileNode(<<>>, 1)) @@
  (PathOf(FolderF, <<Todo>>)          :> DirNode) @@
  (PathOf(FolderF, <<Todo, name>>)    :> FileNode(text, 1))

ParseFileSystems == {FsCard(name, text) : name \in {a_md, B_MD}, text \in ParseTexts}

\* No column at all.
FsNoColumn ==
  (PathOf(FolderF, <<>>)                 :> DirNode) @@
  (PathOf(FolderF, <<<<"k">>>>)          :> FileNode(<<>>, 1))

BuildFileSystems == {FsOneCard, FsCollision, FsMixed, FsThreeColumns, FsNoColumn}

\* The files and directories changed from outside, and the card locators and
\* column names the webview's messages carry.
ColumnNames == {Todo, Done}
CardNames   == {a_md}
CardUriStrings ==
  {UriToString([scheme |-> "file", path |-> PathOf(FolderF, <<c, n>>)]) :
     c \in ColumnNames, n \in CardNames}
\* ... and those of a malformed or stale message.
AnyCardUriStrings ==
  CardUriStrings
    \cup {UriToString([scheme |-> "file", path |-> PathOf(FolderF, <<Todo>>) \o <<"/">>])}
    \cup {<<>>}
AnyTargetColumns == ColumnNames \cup {Gone, <<"k">>, <<>>}

(***************************************************************************)
(* State                                                                   *)
(***************************************************************************)
VARIABLES
  fs,        \* the file system
  docState,  \* per anchor: "closed", "open" (openCustomDocument returned),
             \* "resolved" (resolveCustomEditor ran), "disposed"
  watchers,  \* this.watchers: per key, the document whose watcher is in the table
  live,      \* the watchers created and not disposed, by their document
  pending,   \* per watcher: the notifications not yet delivered to its listeners
  tasks,     \* the calls of sendBoard in flight, oldest first
  board,     \* per anchor: <<the board of the last boardData message>>, or <<>>
  last,      \* the handler or step that ran last, with its arguments and outcome
  dirOrder,  \* the listing order of the directories whose order is known
  failed,    \* whether a call of sendBoard has thrown
  fsOps,     \* how many changes are still made to the files from outside
  intents    \* how many messages the webview still posts

vars == <<fs, docState, watchers, live, pending, tasks, board, last, dirOrder, failed,
          fsOps, intents>>

\* A mutant: the watchers are kept by the folder they watch.
KeyOfFolder(kanbanUri) == UriToString(BoardFolderOf(kanbanUri))

\* resolveCustomEditor, dispose: const key = document.uri.toString()
Key(kanbanUri) == UriToString(kanbanUri)

\* What ran last: the handler or step (kind), its document, the arguments
\* of its message, how it ended (result), whether it posted a board, how
\* many renames it issued, how many calls of sendBoard it started, and for
\* a message the file system it found (before).  For a step of a rebuild
\* there is also <<the board buildBoard returned>> (board) and whether the
\* file system changed since the rebuild was started (stale).
Event(kind, doc, cardUri, target, result, posted, renames, started, before) ==
  [kind |-> kind, doc |-> doc, cardUri |-> cardUri, target |-> target,
   result |-> result, posted |-> posted, renames |-> renames,
   started |-> started, before |-> before, board |-> <<>>, stale |-> FALSE]

Plain(kind, doc, result, started) ==
  Event(kind, doc, <<>>, <<>>, result, FALSE, 0, started, <<>>)

\* A mutant: the watcher is created with ignoreDeleteEvents set.
NotificationsIgnoringDeletes(f, g) ==
  LET touched == {p \in DOMAIN f \cup DOMAIN g :
                    ~(p \in DOMAIN f /\ p \in DOMAIN g /\ f[p] = g[p])}
      topmost == {p \in touched : ~\E q \in touched : IsUnder(p, q)}
  IN  {<<p, IF p \notin DOMAIN f THEN "create" ELSE "change">> :
         p \in {q \in topmost : q \in DOMAIN g}}

\* One notification per topmost path that was created, deleted or changed.
Notifications(f, g) ==
  LET touched == {p \in DOMAIN f \cup DOMAIN g :
                    ~(p \in DOMAIN f /\ p \in DOMAIN g /\ f[p] = g[p])}
      topmost == {p \in touched : ~\E q \in touched : IsUnder(p, q)}
      kind(p) == IF p \notin DOMAIN f THEN "create"
                 ELSE IF p \notin DOMAIN g THEN "delete" ELSE "change"
  IN  {<<p, kind(p)>> : p \in topmost}

\* The queues of the live watchers after the file system went from f to g:
\* a watcher sees what happens under the folder of its document.  A queue
\* counts the notifications of each kind.
Notified(f, g) ==
  [a \in DOMAIN pending |->
     IF a \in live
       THEN LET seen == {n \in Notifications(f, g) : IsUnder(n[1], BoardFolderOf(a).path)}
            IN  [k \in {"create", "delete", "change"} |->
                   pending[a][k] + Cardinality({n \in seen : n[2] = k})]
       ELSE pending[a]]

NoNotifications == [k \in {"create", "delete", "change"} |-> 0]

(***************************************************************************)
(* sendBoard: a call in flight is a task.  It is suspended at one of its   *)
(* awaits: the listing of the board folder ("listBoard"), the listing of   *)
(* a column directory ("listColumn"), the read of a file ("readFile") or   *)
(* its stat ("stat").                                                      *)
(***************************************************************************)
NewTask(doc) ==
  [doc     |-> doc,
   pc      |-> "listBoard",
   entries |-> <<>>,    \* the directories of the board folder still to visit
   columns |-> <<>>,    \* buildBoard's columns
   column  |-> <<>>,    \* the name of the column being read
   files   |-> <<>>,    \* the card files of the column still to read
   cards   |-> <<>>,    \* readCards' cards
   file    |-> <<>>,    \* the name of the file being read
   card    |-> <<>>,    \* <<the card of that file, before its stat>>
   stale   |-> FALSE]   \* whether the file system changed since the call

\* The model starts a call of sendBoard when fewer than MaxTasks are in
\* flight; until then the event that calls it waits to be delivered.
CanStartRebuild == Len(tasks) < MaxTasks

\* A mutant: a call of sendBoard is dropped while another is in flight.
StartRebuildUnlessBusy(ts, doc) ==
  IF \E i \in 1..Len(ts) : ts[i].doc = doc THEN ts ELSE Append(ts, NewTask(doc))

\* sendBoard(): buildBoard is entered and suspends on its first listing.
StartRebuild(ts, doc) == Append(ts, NewTask(doc))

\* The calls in flight once the file system went from f to g.
Overtaken(ts, f, g) ==
  IF f = g THEN ts ELSE [i \in 1..Len(ts) |-> [ts[i] EXCEPT !.stale = TRUE]]

RemoveAt(seq, i) == SubSeq(seq, 1, i - 1) \o SubSeq(seq, i + 1, Len(seq))

ColumnUri(t) == UriJoinPath(BoardFolderOf(t.doc), t.column)
FileUri(t)   == UriJoinPath(ColumnUri(t), t.file)

\* The step of a task: it goes on (next), or returns its board (board), or
\* throws (neither).
Goes(t)     == [next |-> <<t>>, board |-> <<>>]
Returns(b)  == [next |-> <<>>, board |-> <<b>>]
Throws      == [next |-> <<>>, board |-> <<>>]

\* buildBoard past the loop: columns.sort(...); return { columns }
BoardOf(columns) == [columns |-> SortColumns(columns)]

\* buildBoard's loop at the next directory of the listing, if any.
NextColumn(t, columns) ==
  IF t.entries = <<>> THEN Returns(BoardOf(columns))
  ELSE Goes([t EXCEPT !.pc = "listColumn", !.columns = columns,
                      !.column = Head(t.entries)[1], !.entries = Tail(t.entries),
                      !.files = <<>>, !.cards = <<>>, !.file = <<>>, !.card = <<>>])

\* readCards past its loop: cards.sort(...); return cards; and buildBoard's
\* columns.push({ name, cards }).
ColumnRead(t, cards) ==
  NextColumn(t, Append(t.columns, [name |-> t.column, cards |-> SortCards(cards)]))

\* readCards' loop at the next card file of the listing, if any.
NextFile(t, files, cards) ==
  IF files = <<>> THEN ColumnRead(t, cards)
  ELSE Goes([t EXCEPT !.pc = "readFile", !.file = Head(files)[1],
                      !.files = Tail(files), !.cards = cards, !.card = <<>>])

\* await readDirectory(boardFolder) resolved to `entries`.
BoardListed(t, entries) ==
  NextColumn([t EXCEPT !.entries = SelectSeq(entries, IsColumnEntry)], <<>>)

\* await readDirectory(columnUri) resolved to `entries`.
ColumnListed(t, entries) == NextFile(t, SelectSeq(entries, IsCardEntry), <<>>)

\* await readFile(fileUri) resolved to `text`.
FileRead(t, text) ==
  Goes([t EXCEPT !.pc = "stat", !.card = <<ParsedCard(FileUri(t), t.file, text)>>])

\* await stat(fileUri) resolved with this ctime: cards.push({...}).
FileStatted(t, ctime) ==
  NextFile(t, t.files, Append(t.cards, [t.card[1] EXCEPT !.createdAt = ctime]))

\* The outcomes of the await a task is suspended at, on the file system f:
\* the primitive fails when what it names is missing or of the wrong kind,
\* and it may fail for a reason of its own (ioError).
TaskStep(t, f, order, ioError) ==
  LET folder == BoardFolderOf(t.doc).path
  IN  CASE t.pc = "listBoard" ->
             IF ioError \/ ~IsDirectory(f, folder) THEN {Throws}
             ELSE {BoardListed(t, es) : es \in Listings(f, order, folder)}
        [] t.pc = "listColumn" ->
             IF ioError \/ ~IsDirectory(f, ColumnUri(t).path) THEN {Throws}
             ELSE {ColumnListed(t, es) : es \in Listings(f, order, ColumnUri(t).path)}
        [] t.pc = "readFile" ->
             IF ioError \/ ~IsFile(f, FileUri(t).path) THEN {Throws}
             ELSE {FileRead(t, f[FileUri(t).path].content)}
        [] t.pc = "stat" ->
             IF ioError \/ ~Exists(f, FileUri(t).path) THEN {Throws}
             ELSE {FileStatted(t, f[FileUri(t).path].ctime)}

\* The boards a call of sendBoard can post when the file system stays f from
\* its first await to its last and no primitive fails for a reason of its
\* own: one per order the listings can come in.
RECURSIVE BuildOutcomes(_, _)
BuildOutcomes(t, f) ==
  UNION {IF o.next # <<>> THEN BuildOutcomes(o.next[1], f) ELSE {o.board} :
           o \in TaskStep(t, f, NoOrder, FALSE)}

Boards(f, doc) == {b[1] : b \in {x \in BuildOutcomes(NewTask(doc), f) : x # <<>>}}

(***************************************************************************)
(* The editor provider                                                     *)
(***************************************************************************)
NoDoc == [scheme |-> "", path |-> <<>>]

\* The state after the provider is constructed, on the file system f, with
\* the numbers of outside changes and of messages the behaviour goes through.
ConstructedOn(A, f, order, changes, messages) ==
  /\ fs = f
  /\ docState = [a \in A |-> "closed"]
  /\ watchers = << >>
  /\ live = {}
  /\ pending = [a \in A |-> NoNotifications]
  /\ tasks = <<>>
  /\ board = [a \in A |-> <<>>]
  /\ last = Plain("init", NoDoc, "ok", 0)
  /\ dirOrder = order
  /\ failed = FALSE
  /\ fsOps = changes
  /\ intents = messages

Constructed(f, changes, messages) ==
  ConstructedOn(Anchors, f, NoOrder, changes, messages)

Init == \E f \in InitialFileSystems : Constructed(f, MaxFsOps, MaxIntents)

\* The state once every document is open and resolved and its first
\* rebuild has posted its board: the boards are Watching.
WatchingOn(f, changes, messages) ==
  /\ fs = f
  /\ docState = [a \in Anchors |-> "resolved"]
  /\ watchers = [k \in {Key(a) : a \in Anchors} |-> CHOOSE a \in Anchors : Key(a) = k]
  /\ live = Anchors
  /\ pending = [a \in Anchors |-> NoNotifications]
  /\ tasks = <<>>
  /\ board \in {b \in [Anchors -> UNION {{<<x>> : x \in Boards(f, a)} : a \in Anchors}] :
                  \A a \in Anchors : b[a][1] \in Boards(f, a)}
  /\ last = Plain("init", NoDoc, "ok", 0)
  /\ dirOrder = NoOrder
  /\ failed = FALSE
  /\ fsOps = changes
  /\ intents = messages

\* openCustomDocument(uri): the document is returned; nothing is registered.
OpenCustomDocument(a) ==
  /\ docState[a] = "closed"
  /\ docState' = [docState EXCEPT ![a] = "open"]
  /\ last' = Plain("openCustomDocument", a, "ok", 0)
  /\ UNCHANGED <<fs, watchers, live, pending, tasks, board, dirOrder, failed, fsOps, intents>>

\* resolveCustomEditor(document, webviewPanel): the watcher is created and
\* put in the table, its three listeners and the message handler are
\* registered, and sendBoard() is called.
ResolveCustomEditor(a) ==
  /\ docState[a] = "open"
  /\ CanStartRebuild
  /\ docState' = [docState EXCEPT ![a] = "resolved"]
  /\ watchers' = (Key(a) :> a) @@ watchers
  /\ live' = live \cup {a}
  /\ tasks' = StartRebuild(tasks, a)
  /\ last' = Plain("resolveCustomEditor", a, "ok", Len(tasks') - Len(tasks))
  /\ UNCHANGED <<fs, pending, board, dirOrder, failed, fsOps, intents>>

\* A mutant: the watcher is taken out of the table and not disposed.
KeepWatcher(lv, a) == lv

\* dispose: watcher.dispose(), for the watcher created for the document a
DisposeWatcher(lv, a) == lv \ {a}

\* The document's dispose(): the watcher under the document's key, if any, is
\* disposed and deleted from the table.  The panel is gone with the document.
Dispose(a) ==
  /\ docState[a] \in {"open", "resolved"}
  /\ docState' = [docState EXCEPT ![a] = "disposed"]
  /\ IF Key(a) \in DOMAIN watchers
       THEN /\ live' = DisposeWatcher(live, watchers[Key(a)])
            /\ watchers' = Restrict(watchers, DOMAIN watchers \ {Key(a)})
       ELSE UNCHANGED <<live, watchers>>
  /\ last' = Plain("dispose", a, "ok", 0)
  /\ UNCHANGED <<fs, pending, tasks, board, dirOrder, failed, fsOps, intents>>

\* A notification of kind k reaches the listener the watcher of a has for
\* it: onDidCreate, onDidDelete and onDidChange all call sendBoard.
Notify(a, k) ==
  /\ a \in live
  /\ CanStartRebuild
  /\ pending[a][k] > 0
  /\ pending' = [pending EXCEPT ![a][k] = @ - 1]
  /\ tasks' = StartRebuild(tasks, a)
  /\ last' = Plain("notify", a, k, Len(tasks') - Len(tasks))
  /\ UNCHANGED <<fs, docState, watchers, live, board, dirOrder, failed, fsOps, intents>>

\* onDidReceiveMessage, type "ready": await sendBoard()
Ready(a) ==
  /\ docState[a] = "resolved"
  /\ CanStartRebuild
  /\ intents > 0
  /\ intents' = intents - 1
  /\ tasks' = StartRebuild(tasks, a)
  /\ last' = Plain("ready", a, "ok", Len(tasks') - Len(tasks))
  /\ UNCHANGED <<fs, docState, watchers, live, pending, board, dirOrder, failed, fsOps>>

\* A mutant: sendBoard is called whatever moveCard did.
AlwaysRebuildAfterMove(ts, doc, result) == StartRebuild(ts, doc)

\* onDidReceiveMessage, type "moveCard": await this.moveCard(...); await
\* sendBoard().  When moveCard throws, the handler is left at that await.
RebuildAfterMove(ts, doc, result) ==
  IF result = "error" THEN ts ELSE StartRebuild(ts, doc)

MoveCardIntent(a, cardUriString, targetColumnName) ==
  /\ docState[a] = "resolved"
  /\ CanStartRebuild
  /\ intents > 0
  /\ intents' = intents - 1
  /\ \E o \in moveCard(fs, a, cardUriString, targetColumnName) :
       /\ fs' = o.fs
       /\ pending' = Notified(fs, o.fs)
       /\ dirOrder' = Forget(dirOrder, fs, o.fs)
       /\ tasks' = RebuildAfterMove(Overtaken(tasks, fs, o.fs), a, o.result)
       /\ last' = Event("moveCard", a, cardUriString, targetColumnName,
                        o.result, FALSE, o.renames, Len(tasks') - Len(tasks), fs)
  /\ UNCHANGED <<docState, watchers, live, board, failed, fsOps>>

\* A mutant: the board is rebuilt after the file is shown.
RebuildAfterOpenFile(ts, doc, cardUriString) ==
  IF cardUriString = <<>> THEN ts ELSE StartRebuild(ts, doc)

\* onDidReceiveMessage, type "openFile": await showTextDocument(...); return.
\* The calls of sendBoard in flight afterwards.
AfterOpenFile(ts, doc, cardUriString) == ts

\* onDidReceiveMessage, type "openFile": with a cardUri the file is shown in
\* a text editor (which fails when there is no such file); without one the
\* message falls through.
OpenFile(a, cardUriString) ==
  /\ docState[a] = "resolved"
  /\ intents > 0
  /\ intents' = intents - 1
  /\ tasks' = AfterOpenFile(tasks, a, cardUriString)
  /\ last' = Event("openFile", a, cardUriString, <<>>,
                   IF cardUriString = <<>> THEN "ignored"
                   ELSE IF IsFile(fs, UriParse(cardUriString).path) THEN "shown"
                   ELSE "error",
                   FALSE, 0, Len(tasks') - Len(tasks), fs)
  /\ UNCHANGED <<fs, docState, watchers, live, pending, board, dirOrder, failed, fsOps>>

\* onDidReceiveMessage, any other message: no branch is taken.
OtherMessage(a) ==
  /\ docState[a] = "resolved"
  /\ intents > 0
  /\ intents' = intents - 1
  /\ last' = Event("otherMessage", a, <<>>, <<>>, "ignored", FALSE, 0, 0, fs)
  /\ UNCHANGED <<fs, docState, watchers, live, pending, tasks, board, dirOrder, failed, fsOps>>

\* A mutant: the board of a call that a change of the files overtook is
\* not posted.
PostedBoardIfFresh(t, outcome) == IF t.stale THEN <<>> ELSE outcome.board

\* A mutant: a failed build posts the columns it has.
PostedBoardOrPartial(t, outcome) ==
  IF outcome.next = <<>> /\ outcome.board = <<>>
    THEN <<BoardOf(t.columns)>>
    ELSE outcome.board

\* sendBoard: const board = await this.buildBoard(document.uri);
\* postMessage({ type: "boardData", board }).  <<the board posted>>, or <<>>.
PostedBoard(t, outcome) == outcome.board

\* A task runs from the await it is suspended at to its next await, or to
\* the end of sendBoard.  A message posted to a panel that is gone is lost.
RebuildStep(i, ioError) ==
  /\ i \in 1..Len(tasks)
  /\ \E o \in TaskStep(tasks[i], fs, dirOrder, ioError) :
       LET t == tasks[i]
           posted == PostedBoard(t, o)
       IN  /\ tasks' = IF o.next # <<>> THEN [tasks EXCEPT ![i] = o.next[1]]
                       ELSE RemoveAt(tasks, i)
           /\ board' = IF posted # <<>> /\ docState[t.doc] = "resolved"
                         THEN [board EXCEPT ![t.doc] = posted]
                         ELSE board
           /\ failed' = (failed \/ (o.next = <<>> /\ o.board = <<>>))
           /\ last' = [Event("rebuild", t.doc, <<>>, <<t.pc>>,
                             IF o.next # <<>> THEN "suspended"
                             ELSE IF o.board # <<>> THEN "returned" ELSE "thrown",
                             posted # <<>>, 0,
                             Len(tasks') - Len(tasks) + (IF o.next = <<>> THEN 1 ELSE 0),
                             <<>>)
                         EXCEPT !.board = o.board, !.stale = t.stale]
  /\ UNCHANGED <<fs, docState, watchers, live, pending, dirOrder, fsOps, intents>>

(***************************************************************************)
(* Changes made to the board folder from outside the editor.               *)
(***************************************************************************)
Outside(g) ==
  /\ fsOps > 0
  /\ fsOps' = fsOps - 1
  /\ fs' = g
  /\ pending' = Notified(fs, g)
  /\ dirOrder' = Forget(dirOrder, fs, g)
  /\ tasks' = Overtaken(tasks, fs, g)
  /\ last' = Plain("outside", NoDoc, "ok", 0)
  /\ UNCHANGED <<docState, watchers, live, board, failed, intents>>

CreateFile(column, name, text, ctime) ==
  LET path == PathOf(FolderF, <<column, name>>)
  IN  /\ IsDirectory(fs, DirName(path))
      /\ ~Exists(fs, path)
      /\ Outside((path :> FileNode(text, ctime)) @@ fs)

WriteFile(path, text) ==
  /\ IsFile(fs, path)
  /\ fs[path].content # text
  /\ Outside([fs EXCEPT ![path].content = text])

Delete(path) ==
  /\ Exists(fs, path)
  /\ Outside(RemoveTree(fs, path))

CreateDirectory(name) ==
  LET path == PathOf(FolderF, <<name>>)
  IN  /\ ~Exists(fs, path)
      /\ Outside((path :> DirNode) @@ fs)

OutsidePaths ==
  {PathOf(FolderF, <<c>>) : c \in ColumnNames}
    \cup {PathOf(FolderF, <<c, n>>) : c \in ColumnNames, n \in CardNames}

\* The webview's drop handler: a card of the board shown is dropped on a
\* column of that board, and the moveCard message is posted.
MoveFromBoard(a) ==
  /\ board[a] # <<>>
  /\ \E i, j \in 1..Len(board[a][1].columns) :
       \E k \in 1..Len(board[a][1].columns[i].cards) :
         MoveCardIntent(a, board[a][1].columns[i].cards[k].uri,
                        board[a][1].columns[j].name)

\* The handlers of the provider and the steps of its rebuilds.
Lifecycle ==
  \/ \E a \in DOMAIN docState : OpenCustomDocument(a)
  \/ \E a \in DOMAIN docState : ResolveCustomEditor(a)
  \/ \E a \in DOMAIN docState : Dispose(a)

Rebuilds == \E i \in 1..Len(tasks), ioError \in BOOLEAN : RebuildStep(i, ioError)

Watching == \E a \in DOMAIN docState, k \in {"create", "delete", "change"} : Notify(a, k)

\* The messages of the webview, with the card locators and the column names
\* they may carry.
Messages(cardUris, targets) ==
  \/ \E a \in DOMAIN docState : Ready(a)
  \/ \E a \in DOMAIN docState, c \in cardUris, t \in targets : MoveCardIntent(a, c, t)
  \/ \E a \in DOMAIN docState, c \in cardUris : OpenFile(a, c)
  \/ \E a \in DOMAIN docState : OtherMessage(a)

OutsideChanges ==
  \/ \E c \in ColumnNames, n \in CardNames, x \in Texts, ct \in 1..MaxCtime :
       CreateFile(c, n, x, ct)
  \/ \E p \in OutsidePaths, x \in Texts : WriteFile(p, x)
  \/ \E p \in OutsidePaths : Delete(p)
  \/ \E c \in ColumnNames \cup {Gone} : CreateDirectory(c)

Next ==
  \/ Lifecycle
  \/ Rebuilds
  \/ Watching
  \/ Messages(CardUriStrings, ColumnNames)
  \/ OutsideChanges

Spec == Init /\ [][Next]_vars

\* The moves: boards that are Watching get messages, whatever they carry,
\* on each of the file systems a move can meet; no change from outside.
InitMove == \E f \in MoveFileSystems : WatchingOn(f, 0, MaxIntents)

NextMove ==
  \/ \E a \in DOMAIN docState : Dispose(a)
  \/ Rebuilds
  \/ Watching
  \/ Messages(AnyCardUriStrings, AnyTargetColumns)

SpecMove == InitMove /\ [][NextMove]_vars

\* The watch: boards are opened and closed while the files change from
\* outside; the webview posts nothing.
InitWatch == \E f \in InitialFileSystems : Constructed(f, MaxFsOps, 0)

NextWatch ==
  \/ Lifecycle
  \/ Rebuilds
  \/ Watching
  \/ OutsideChanges

SpecWatch == InitWatch /\ [][NextWatch]_vars

\* The builds: a board is opened on a file system that stays as it is.
InitBuild == \E f \in BuildFileSystems : Constructed(f, 0, 0)

NextBuild ==
  \/ Lifecycle
  \/ Rebuilds

SpecBuild == InitBuild /\ [][NextBuild]_vars

\* The parses: a board is opened on a column with one card file, of any
\* text the lines make.
InitParse == \E f \in ParseFileSystems : Constructed(f, 0, 0)

SpecParse == InitParse /\ [][NextBuild]_vars

\* Two boards: two board files of one folder are opened and closed and
\* asked for their boards, each on its own.
InitMulti ==
  ConstructedOn(TwoAnchors, (KanbanJ.path :> FileNode(<<>>, 1)) @@ FsOneCard,
                NoOrder, 0, MaxIntents)

NextMulti ==
  \/ Lifecycle
  \/ Rebuilds
  \/ \E a \in DOMAIN docState : Ready(a)

SpecMulti == InitMulti /\ [][NextMulti]_vars

\* The drops: a board that is Watching is asked for its board and has the
\* cards it shows dropped on the columns it shows, while it is rebuilt.
InitDrop == \E f \in MoveFileSystems : WatchingOn(f, 0, MaxDrops)

NextDrop ==
  \/ Rebuilds
  \/ Watching
  \/ \E a \in DOMAIN docState : Ready(a)
  \/ \E a \in DOMAIN docState : MoveFromBoard(a)

SpecDrop == InitDrop /\ [][NextDrop]_vars

\* The directories of f, and the ways their listings may be ordered.
Directories(f) == {p \in DOMAIN f : f[p].type = FileType_Directory}

RECURSIVE OrdersOf(_, _)
OrdersOf(f, dirs) ==
  IF dirs = {} THEN {NoOrder}
  ELSE LET d == CHOOSE x \in dirs : TRUE
       IN  {(d :> o) @@ rest : o \in Orderings(DirEntries(f, d)),
                               rest \in OrdersOf(f, dirs \ {d})}

\* The repeated builds: a board is opened and asked again for its board,
\* on a file system that stays as it is and lists its directories the same
\* way every time.
InitIdem ==
  \E f \in IdemFileSystems : \E order \in OrdersOf(f, Directories(f)) :
    ConstructedOn(Anchors, f, order, 0, MaxIntents)

NextIdem ==
  \/ Lifecycle
  \/ Rebuilds
  \/ \E a \in DOMAIN docState : Ready(a)

SpecIdem == InitIdem /\ [][NextIdem]_vars

(***************************************************************************)
(* Properties                                                              *)
(***************************************************************************)
CardPath(column, name) == PathOf(FolderF, <<column, name>>)
ColumnPath(column)     == PathOf(FolderF, <<column>>)
CardLocator(column, name) ==
  UriToString([scheme |-> "file", path |-> CardPath(column, name)])

NamedColumns == AnyTargetColumns \ {<<>>}

\* What ran last is a call of moveCard(anchor, locator of column/name, target).
IsMoveOf(column, name, target) ==
  /\ last.kind = "moveCard"
  /\ last.cardUri = CardLocator(column, name)
  /\ last.target = target

\* C1: a card file moved to another existing column directory that has no
\* file of its name is, after the move, in that directory with the content
\* it had, and no longer in the directory it came from; nothing is thrown.
C1_MoveRelocatesCard ==
  \A s \in ColumnNames, d \in NamedColumns, n \in CardNames :
    (/\ IsMoveOf(s, n, d)
     /\ s # d
     /\ IsDirectory(last.before, ColumnPath(s))
     /\ IsDirectory(last.before, ColumnPath(d))
     /\ Exists(last.before, CardPath(s, n))
     /\ ~Exists(last.before, CardPath(d, n)))
    => (/\ last.result = "moved"
        /\ Exists(fs, CardPath(d, n))
        /\ fs[CardPath(d, n)] = last.before[CardPath(s, n)]
        /\ ~Exists(fs, CardPath(s, n)))

C1_Witness ==
  /\ IsMoveOf(Todo, a_md, Done)
  /\ last.before = FsOneCard
  /\ last.result = "moved"
  /\ ~Exists(fs, CardPath(Todo, a_md))
  /\ Exists(fs, CardPath(Done, a_md))
  /\ fs[CardPath(Done, a_md)].content = TextZ

\* C2: a move to a column that already has a file of the card's name throws,
\* and leaves the card's file and the file at the destination as they were.
C2_CollisionFailsAndKeepsBoth ==
  \A s \in ColumnNames, d \in NamedColumns, n \in CardNames :
    (/\ IsMoveOf(s, n, d)
     /\ s # d
     /\ Exists(last.before, CardPath(s, n))
     /\ Exists(last.before, CardPath(d, n)))
    => (/\ last.result = "error"
        /\ Exists(fs, CardPath(s, n))
        /\ fs[CardPath(s, n)] = last.before[CardPath(s, n)]
        /\ Exists(fs, CardPath(d, n))
        /\ fs[CardPath(d, n)] = last.before[CardPath(d, n)])

C2_Witness ==
  /\ IsMoveOf(Todo, a_md, Done)
  /\ last.before = FsCollision
  /\ last.result = "error"
  /\ fs[CardPath(Todo, a_md)].content = TextZ
  /\ fs[CardPath(Done, a_md)].content = TextB

\* What ran last called sendBoard once: the call is the newest in flight.
RebuildStarted ==
  /\ last.started = 1
  /\ tasks # <<>>
  /\ tasks[Len(tasks)] = NewTask(last.doc)

\* C3 as claimed: every moveCard message is followed by a rebuild, also when
\* the move failed.
C3_RebuildAfterEveryMove == last.kind = "moveCard" => RebuildStarted

\* C3, amended: a moveCard message is followed by a rebuild when the move
\* was made or was a no-op; when the move throws, the handler ends there and
\* starts no rebuild.
C3_RebuildUnlessMoveThrows ==
  last.kind = "moveCard" =>
    IF last.result = "error" THEN last.started = 0 ELSE RebuildStarted

C3_Witness ==
  /\ IsMoveOf(Todo, a_md, Done)
  /\ last.before = FsCollision
  /\ last.result = "error"
  /\ last.started = 0
  /\ tasks = <<>>

\* C4: a move without a card locator or without a target column name makes
\* no rename, changes no file and throws nothing.
C4_MissingArgumentIsNoop ==
  (last.kind = "moveCard" /\ (last.cardUri = <<>> \/ last.target = <<>>))
    => (last.result = "noop" /\ last.renames = 0 /\ fs = last.before)

C4_Witness ==
  /\ IsMoveOf(Todo, a_md, <<>>)
  /\ last.result = "noop"
  /\ Exists(fs, CardPath(Todo, a_md))

\* What ran last is a move of an existing card file to a column name that
\* names no directory of the board folder.
IsMoveToNoDirectory(s, n, d) ==
  /\ IsMoveOf(s, n, d)
  /\ Exists(last.before, CardPath(s, n))
  /\ ~IsDirectory(last.before, ColumnPath(d))

\* C5 as claimed: such a move issues the rename, the rename fails, the
\* failure is thrown to the caller and the card file stays.
C5_MoveToMissingColumnFails ==
  \A s \in ColumnNames, d \in NamedColumns, n \in CardNames :
    IsMoveToNoDirectory(s, n, d)
    => (/\ last.renames = 1
        /\ last.result = "error"
        /\ Exists(fs, CardPath(s, n))
        /\ fs[CardPath(s, n)] = last.before[CardPath(s, n)])

\* C5, amended: such a move issues the rename without a check of its own.
\* When the rename fails the failure is thrown to the caller, which then
\* starts no rebuild, and the card file stays; when the host creates the
\* missing directory the card file is moved into it.
C5_MoveToMissingColumnIsLeftToRename ==
  \A s \in ColumnNames, d \in NamedColumns, n \in CardNames :
    IsMoveToNoDirectory(s, n, d)
    => (/\ last.renames = 1
        /\ last.result \in {"error", "moved"}
        /\ last.result = "error" =>
             (/\ Exists(fs, CardPath(s, n))
              /\ fs[CardPath(s, n)] = last.before[CardPath(s, n)]
              /\ last.started = 0)
        /\ last.result = "moved" =>
             (/\ ~Exists(fs, CardPath(s, n))
              /\ IsDirectory(fs, ColumnPath(d))
              /\ fs[CardPath(d, n)] = last.before[CardPath(s, n)]))

C5_Witness ==
  /\ IsMoveOf(Todo, a_md, Gone)
  /\ last.result = "error"
  /\ last.renames = 1
  /\ Exists(fs, CardPath(Todo, a_md))
  /\ ~Exists(fs, ColumnPath(Gone))

\* C6: every notification delivered to a listener of the watcher starts a
\* call of sendBoard of its own, whatever is in flight.
C6_EveryNotificationStartsRebuild == last.kind = "notify" => RebuildStarted

\* A notification was delivered while an earlier rebuild was past its first
\* listing.
C6_Witness ==
  /\ last.kind = "notify"
  /\ Len(tasks) = 2
  /\ tasks[1].pc # "listBoard"
  /\ tasks[2] = NewTask(KanbanF)

\* C7: once the document is disposed its watcher is disposed and out of the
\* table, and no notification is delivered for the document any more.
C7_DisposedBoardIsNotRebuilt ==
  \A a \in Anchors :
    docState[a] = "disposed"
    => (/\ a \notin live
        /\ Key(a) \notin DOMAIN watchers
        /\ ~(last.kind = "notify" /\ last.doc = a))

\* The board was shown, the document was disposed, and then a file changed.
C7_Witness ==
  /\ docState[KanbanF] = "disposed"
  /\ board[KanbanF] # <<>>
  /\ last.kind = "outside"

\* C8: a rebuild that meets a failing listing, read or stat posts nothing
\* and is over: no call of sendBoard takes its place.
C8_FailedRebuildPostsNothing ==
  (last.kind = "rebuild" /\ last.result = "thrown")
    => (~last.posted /\ last.started = 0)

\* A rebuild failed at the stat of a file, after it had listed and read.
C8_Witness ==
  /\ last.kind = "rebuild"
  /\ last.result = "thrown"
  /\ last.target = <<"stat">>
  /\ ~last.posted

\* The names ending in .md, whatever the case of the two letters.
HasMdExtension(name) ==
  \E e \in {<<".", "m", "d">>, <<".", "M", "d">>, <<".", "m", "D">>, <<".", "M", "D">>} :
    EndsWith(name, e)

DirectoriesIn(f, dir) ==
  {BaseName(p) : p \in {q \in Children(f, dir) : f[q].type = FileType_Directory}}

CardFilesIn(f, dir) ==
  {BaseName(p) : p \in {q \in Children(f, dir) :
                          f[q].type = FileType_File /\ HasMdExtension(BaseName(q))}}

\* Each element of the set is named by exactly one element of the sequence.
OneEach(names, S) ==
  /\ Len(names) = Cardinality(S)
  /\ {names[i] : i \in 1..Len(names)} = S

\* C9: on a file system that stays as it is, the board has exactly one
\* column per directory of the board folder and, in each, exactly one card
\* per regular file of that directory whose name ends in .md in any case.
C9_BoardMirrorsDirectories ==
  \A a \in Anchors :
    board[a] # <<>> =>
      LET columns == board[a][1].columns
          folder  == FolderF
      IN  /\ OneEach([i \in 1..Len(columns) |-> columns[i].name], DirectoriesIn(fs, folder))
          /\ \A i \in 1..Len(columns) :
               OneEach([j \in 1..Len(columns[i].cards) |-> columns[i].cards[j].fileName],
                       CardFilesIn(fs, PathOf(folder, <<columns[i].name>>)))

C9_Witness ==
  /\ fs = FsMixed
  /\ board[KanbanF] # <<>>
  /\ Len(board[KanbanF][1].columns) = 2
  /\ \E i \in 1..2 : Len(board[KanbanF][1].columns[i].cards) = 2

Ascending(keys) ==
  \A i \in 1..(Len(keys) - 1) : LocaleCompare(keys[i], keys[i + 1]) <= 0

\* C10: in a board that was pushed the columns are in ascending order of
\* name and the cards of each column in ascending order of title.
C10_BoardIsSorted ==
  \A a \in Anchors :
    board[a] # <<>> =>
      LET columns == board[a][1].columns
      IN  /\ Ascending([i \in 1..Len(columns) |-> columns[i].name])
          /\ \A i \in 1..Len(columns) :
               Ascending([j \in 1..Len(columns[i].cards) |-> columns[i].cards[j].title])

C10_Witness ==
  /\ fs = FsThreeColumns
  /\ board[KanbanF] # <<>>
  /\ Len(board[KanbanF][1].columns) = 3
  /\ \E i \in 1..3 : Len(board[KanbanF][1].columns[i].cards) = 2

NothingPending(a) == \A k \in DOMAIN pending[a] : pending[a][k] = 0

\* C12: rebuilds of one board do not exclude each other.  A notification or
\* a ready message starts a rebuild whatever is in flight, and every rebuild
\* that returns pushes its board, which is then the board shown, whether
\* the rebuild was started before or after the others.
C12_LastCompletedRebuildShows ==
  /\ last.kind \in {"notify", "ready"} => RebuildStarted
  /\ (last.kind = "rebuild" /\ last.result = "returned"
        /\ docState[last.doc] = "resolved")
       => (last.posted /\ board[last.doc] = last.board)

\* A rebuild started before a change of the files returned after the
\* rebuild the change started: its board, which is not a board of the
\* files as they are, is the board shown.
C12_Witness ==
  /\ last.kind = "rebuild"
  /\ last.result = "returned"
  /\ last.stale
  /\ tasks = <<>>
  /\ ~failed
  /\ docState[KanbanF] = "resolved"
  /\ NothingPending(KanbanF)
  /\ board[KanbanF] = last.board
  /\ last.board[1] \notin Boards(fs, KanbanF)

\* The cards of the boards shown.
ShownCards ==
  UNION {UNION {{c.cards[j] : j \in 1..Len(c.cards)} :
                  c \in {board[a][1].columns[i] : i \in 1..Len(board[a][1].columns)}} :
           a \in {x \in DOMAIN board : board[x] # <<>>}}

\* The lines of the file a card was read from.
LinesOf(card) == SplitLines(fs[UriParse(card.uri).path].content)

\* A line of the form `tags: ...`: the keyword in any letter case, white
\* space or none, a colon, and at least one more character.
ColonOf(line) ==
  {i \in 5..Len(line) :
     /\ ToLowerCase(SubSeq(line, 1, 4)) = <<"t", "a", "g", "s">>
     /\ \A j \in 5..(i - 1) : IsSpace(line[j])
     /\ line[i] = ":"
     /\ \E j \in (i + 1)..Len(line) :
          /\ \A m \in (i + 1)..(j - 1) : IsSpace(line[m])
          /\ \A m \in j..Len(line) : ~IsLineTerminator(line[m])}

IsTagForm(line) == ColonOf(line) # {}

\* The pieces between the commas of what follows the colon, trimmed, the
\* empty ones left out.
PiecesOf(line) ==
  LET i == CHOOSE x \in ColonOf(line) : TRUE
      pieces == SplitOn(SubSeq(line, i + 1, Len(line)), ",")
  IN  SelectSeq([k \in 1..Len(pieces) |-> Trim(pieces[k])], LAMBDA x : x # <<>>)

\* A line that, once trimmed, begins with "# ", and the first one of a text.
IsHeadingLine(line) == StartsWith(Trim(line), <<"#", " ">>)

FirstHeading(lines) ==
  IF \E i \in 1..Len(lines) : IsHeadingLine(lines[i])
    THEN CHOOSE i \in 1..Len(lines) :
           IsHeadingLine(lines[i]) /\ \A j \in 1..(i - 1) : ~IsHeadingLine(lines[j])
    ELSE 0

\* C13: the tags of a card are the pieces of the lines of the form
\* `tags: ...` of its file, before and after the heading and without one,
\* in the order of the file and with repetitions; its body is made of the
\* lines after the heading that are not of that form.
C13_TagLinesGiveTagsNotBody ==
  \A card \in ShownCards :
    LET lines == LinesOf(card)
        h     == FirstHeading(lines)
        kept  == SelectSeq(SubSeq(lines, h + 1, Len(lines)), LAMBDA l : ~IsTagForm(l))
    IN  /\ card.tags = Flatten([k \in 1..Len(lines) |->
                                  IF IsTagForm(lines[k]) THEN PiecesOf(lines[k]) ELSE <<>>])
        /\ card.body = Trim(Join(kept, NL))

\* A card with a line of tags before its heading and one after it.
C13_Witness ==
  \E card \in ShownCards :
    /\ LinesOf(card) = << <<"t", "a", "g", "s", ":", " ", "x", ",", " ", "y">>,
                          <<"#", " ", "T">>,
                          <<"T", "a", "g", "s", " ", ":", "y", ",", ",", "x", " ">> >>
    /\ card.tags = << <<"x">>, <<"y">>, <<"y">>, <<"x">> >>
    /\ card.body = <<>>

\* C14: the title of a card is the trimmed text after the marker of the
\* first heading line of its file, or, without a heading, its file name
\* without the .md it ends in, in any letter case.  A later heading line
\* is a line of the body.
C14_FirstHeadingIsTitle ==
  \A card \in ShownCards :
    LET lines   == LinesOf(card)
        h       == FirstHeading(lines)
        heading == Trim(SubSeq(Trim(lines[h]), 3, Len(Trim(lines[h]))))
        body    == SplitLines(card.body)
    IN  /\ card.title =
             IF h # 0 /\ heading # <<>> THEN heading
             ELSE IF HasMdExtension(card.fileName)
               THEN SubSeq(card.fileName, 1, Len(card.fileName) - 3)
               ELSE card.fileName
        /\ \A k \in (h + 1)..Len(lines) :
             (h # 0 /\ IsHeadingLine(lines[k]))
               => \E m \in 1..Len(body) : Trim(body[m]) = Trim(lines[k])

\* A card with two heading lines: the first gives the title, the second is
\* in the body.
C14_Witness ==
  \E card \in ShownCards :
    /\ LinesOf(card) = << <<" ", "#", " ", " ", "Z", " ">>, <<"#", " ", "T">>, <<"b">> >>
    /\ card.title = <<"Z">>
    /\ card.body = <<"#", " ", "T", NL, "b">>

\* What follows the last "/" of a locator.
LeafName(str) ==
  LET slashes == {i \in 1..Len(str) : str[i] = "/"}
      lastOne == CHOOSE i \in slashes : \A j \in slashes : j <= i
  IN  IF slashes = {} THEN str ELSE SubSeq(str, lastOne + 1, Len(str))

\* The locator of board folder / target column / leaf name of the card.
DestinationLocator(cardUriString, targetColumnName) ==
  UriToString([scheme |-> "file",
               path   |-> PathOf(FolderF, <<targetColumnName, LeafName(cardUriString)>>)])

\* C15: a call of moveCard issues one rename or none, and none when the
\* destination is the locator of the card itself: the card dropped on its
\* own column leaves every file as it was and nothing is thrown.
C15_OneRenameAtMostNoneOnOwnColumn ==
  last.kind = "moveCard" =>
    /\ last.renames \in {0, 1}
    /\ last.renames = 0 => fs = last.before
    /\ (/\ last.cardUri # <<>>
        /\ last.target # <<>>
        /\ DestinationLocator(last.cardUri, last.target) = last.cardUri)
       => (last.renames = 0 /\ last.result = "noop" /\ fs = last.before)

C15_Witness ==
  /\ IsMoveOf(Todo, a_md, Todo)
  /\ last.before = FsOneCard
  /\ last.renames = 0
  /\ last.result = "noop"
  /\ fs = FsOneCard

\* C16: an openFile message with a cardUri is passed on to the text editor
\* and one without, like a message of an unknown type, is ignored; either
\* way no rebuild is started, no board is pushed and no file is touched.
C16_OpenFileOnlyForwards ==
  /\ last.kind = "openFile" =>
       /\ last.result = "ignored" <=> last.cardUri = <<>>
       /\ last.cardUri # <<>> => last.result \in {"shown", "error"}
  /\ last.kind = "otherMessage" => last.result = "ignored"
  /\ last.kind \in {"openFile", "otherMessage"} =>
       /\ last.started = 0
       /\ ~last.posted
       /\ last.renames = 0
       /\ fs = last.before

\* The card of the board was opened; no rebuild is in flight.
C16_Witness ==
  /\ last.kind = "openFile"
  /\ last.cardUri = CardLocator(Todo, a_md)
  /\ last.result = "shown"
  /\ fs = FsOneCard
  /\ tasks = <<>>

\* C17: what is done for one board (open, resolve, dispose, a message, a
\* notification, a step of a rebuild) leaves the watcher of every other
\* board live and in its place in the table, and leaves the board last
\* pushed to every other panel as it was.
C17_BoardsAreIndependent ==
  [][\A a \in DOMAIN docState :
       a # last'.doc =>
         /\ board'[a] = board[a]
         /\ a \in live => a \in live'
         /\ Key(a) \in DOMAIN watchers =>
              (Key(a) \in DOMAIN watchers' /\ watchers'[Key(a)] = watchers[Key(a)])]_vars

\* Both boards were shown and one was disposed: the other is still watched.
C17_Witness ==
  /\ DOMAIN docState = TwoAnchors
  /\ docState[KanbanF] = "disposed"
  /\ docState[KanbanJ] = "resolved"
  /\ board[KanbanF] # <<>>
  /\ board[KanbanJ] # <<>>
  /\ KanbanJ \in live
  /\ Key(KanbanJ) \in DOMAIN watchers
  /\ watchers[Key(KanbanJ)] = KanbanJ

\* The files that are cards on f: the regular .md files right inside the
\* directories of the board folder.
CardFiles(f) ==
  {p \in DOMAIN f :
     /\ IsCardEntry(<<BaseName(p), f[p].type>>)
     /\ DirName(DirName(p)) = FolderF
     /\ Exists(f, DirName(p))
     /\ IsColumnEntry(<<BaseName(DirName(p)), f[DirName(p)].type>>)}

\* How many cards of f have this file name and this content.
CardCount(f, name, content) ==
  Cardinality({p \in CardFiles(f) : BaseName(p) = name /\ f[p].content = content})

\* f and g hold the same cards, counted by file name and content.
SameCards(f, g) ==
  \A h \in {f, g} : \A p \in CardFiles(h) :
    CardCount(f, BaseName(p), h[p].content) = CardCount(g, BaseName(p), h[p].content)

\* C18: a card dropped from a board shown, fresh or stale, on a column of
\* that board is neither lost nor changed: after the moveCard, moved, failed
\* or without effect, the .md files in the column directories are by file
\* name and content the ones before it, and so after any number of them the
\* ones the board started with.
C18_MovesKeepTheCards ==
  /\ last.kind = "moveCard" => SameCards(fs, last.before)
  /\ \E f \in MoveFileSystems : SameCards(fs, f)

\* The card went from Todo to Done and a rebuild posted its board; the
\* second drop, of the same card on Todo, brought it back.
C18_Witness ==
  /\ intents = 0
  /\ IsMoveOf(Done, a_md, Todo)
  /\ last.result = "moved"
  /\ last.before # FsOneCard
  /\ fs = FsOneCard

\* The board shown still has the card in Todo after it went to Done: the
\* second drop of it names a file that is gone, and fails.
C18_StaleWitness ==
  /\ intents = 0
  /\ IsMoveOf(Todo, a_md, Done)
  /\ last.result = "error"
  /\ ~Exists(last.before, CardPath(Todo, a_md))
  /\ SameCards(fs, FsOneCard)

\* The board of a is Watching, every notification of a change is delivered
\* and every rebuild that was started has returned.
Settled(a) ==
  /\ docState[a] = "resolved"
  /\ a \in live
  /\ NothingPending(a)
  /\ tasks = <<>>
  /\ ~failed
  /\ board[a] # <<>>

\* C19 as claimed: once the files have stopped changing and every rebuild
\* has returned, the board shown is a board of the files as they are.
C19_SettledBoardIsCurrent ==
  \A a \in DOMAIN docState : Settled(a) => board[a][1] \in Boards(fs, a)

\* C19: once the files have stopped changing and every rebuild has
\* returned, the board shown is the board of the rebuild that returned last,
\* and it is a board of the files as they are when that rebuild was started
\* after the last change.
C19_SettledBoardIsOfLastRebuild ==
  \A a \in DOMAIN docState :
    Settled(a)
      => (/\ last.kind = "rebuild"
          /\ last.doc = a
          /\ last.result = "returned"
          /\ board[a] = last.board
          /\ (~last.stale => last.board[1] \in Boards(fs, a)))

\* A file was created in Todo while the board was Watching, the rebuild the
\* notification started has returned, and the board shown has its card.
C19_Witness ==
  /\ Settled(KanbanF)
  /\ last.kind = "rebuild"
  /\ ~last.stale
  /\ fsOps = 0
  /\ fs \notin InitialFileSystems
  /\ board[KanbanF][1] \in Boards(fs, KanbanF)
  /\ \A f \in InitialFileSystems : board[KanbanF][1] \notin Boards(f, KanbanF)

\* How many cards of f have this file name, and how many cards of the
\* board b.
FilesNamed(f, name) == Cardinality({p \in CardFiles(f) : BaseName(p) = name})

CardsNamed(b, name) ==
  Cardinality({ik \in (1..Len(b.columns)) \X (1..Cardinality(DOMAIN fs)) :
                 /\ ik[2] <= Len(b.columns[ik[1]].cards)
                 /\ b.columns[ik[1]].cards[ik[2]].fileName = name})

\* C20: where the only changes are the moves of cards between the columns,
\* which keep the number of files of a name (C18), a rebuild that posts a
\* board while one file of a name is in the columns posts one card of that
\* name, though the file went from column to column while the rebuild was
\* suspended.
C20_OneFileOneCard ==
  \A n \in CardNames :
    (last.kind = "rebuild" /\ last.posted /\ FilesNamed(fs, n) = 1)
      => CardsNamed(last.board[1], n) = 1

\* The half of C20 that fails when the rebuild read the card in Done, the
\* card went to Todo, and the rebuild then read it in Todo: two cards.
C20_TwoCards ==
  last.kind = "rebuild" /\ last.posted /\ FilesNamed(fs, a_md) = 1
    => CardsNamed(last.board[1], a_md) <= 1

\* The half of C20 that fails when the rebuild listed Todo, empty, the card
\* went from Done to Todo, and the rebuild then listed Done, empty: no card.
C20_NoCard ==
  last.kind = "rebuild" /\ last.posted /\ FilesNamed(fs, a_md) = 1
    => CardsNamed(last.board[1], a_md) >= 1

====
